---- MODULE Spec2Model ----
(***************************************************************************)
(* Model of rl_optimization/station_placement_rl.py: the two bandit        *)
(* policies (UCB_Bandit, EpsilonGreedy_Bandit) and the placement optimizer *)
(* StationPlacementRL.                                                     *)
(*                                                                         *)
(* Numbers.  Python floats are modelled in fixed point:                    *)
(*   - a latitude / longitude is an integer number of 1e-4 degrees;       *)
(*   - a distance is an integer number of decametres (100 = 1 km);        *)
(*   - a demand-center weight is an integer number of tenths;             *)
(*   - coverage and spread are integers in thousandths;                   *)
(*   - a reward is an integer number of thousandths;                      *)
(*   - epsilon and its decay factor are exact rationals <<num, den>>.     *)
(* Python's random source is a nondeterministic choice.                    *)
(* A defaultdict is a function on the keys that were written; reading a    *)
(* key yields its default when absent (the entry holding the default that  *)
(* such a read inserts is not told apart from an absent entry).            *)
(* An Optional[List] is <<>> for None and <<v>> for the list v.            *)
(***************************************************************************)
EXTENDS Integers, Sequences, FiniteSets, TLC

\* ------------------------------------------------------------------ bounds
\* num_stations ranges over 0..MaxStations.
MaxStations == 6
\* Cap on len(episode_rewards): a run starts only if its episodes fit.
MaxLog == 4
\* Cap on (size of the candidate pool) * len(episode_rewards) * (number of
\* runs since the last reset): a run starts only if its episodes fit.
MaxWork == 18
\* Cap on the number of optimize_placement calls between two resets.
MaxRuns == 2
\* Number of distinct outcomes modelled for the random.uniform draws of one
\* _create_placement_from_arm call.
MaxSamples == 2
\* Number of distinct outcomes modelled for the random.uniform draws of one
\* generate_candidate_placements call.
MaxDraws == 1
\* Standalone bandit calls: arm ids 0..MaxArms-1, at most MaxPulls updates,
\* at most MaxDecays decay calls.
MaxArms == 3
MaxPulls == 3
MaxDecays == 3

\* A hand-made placement given to the reward functions has at most
\* MaxPlacement stations.
MaxPlacement == 2

\* ------------------------------------------------------------- small helpers
None == [none |-> TRUE]

NegInf == -2000000000

Abs(x) == IF x < 0 THEN -x ELSE x

Min2(a, b) == IF b < a THEN b ELSE a

RECURSIVE SumSeq(_)
SumSeq(s) == IF s = <<>> THEN 0 ELSE Head(s) + SumSeq(Tail(s))

RECURSIVE SqrtSearch(_, _, _)
SqrtSearch(n, lo, hi) ==
    IF lo >= hi THEN lo
    ELSE LET mid == (lo + hi + 1) \div 2
         IN  IF mid * mid <= n THEN SqrtSearch(n, mid, hi)
             ELSE SqrtSearch(n, lo, mid - 1)

\* math.sqrt on a non-negative fixed-point operand, rounded down.
ISqrt(n) == SqrtSearch(n, 0, 46340)

\* defaultdict read d[k]: the stored value, or the default when k is absent.
Get(d, k, default) == IF k \in DOMAIN d THEN d[k] ELSE default

Ids(arms) == {arms[i].id : i \in DOMAIN arms}

\* ---------------------------------------------------------- rationals (epsilon)
\* Rationals are pairs <<numerator, denominator>> with a positive denominator.
RECURSIVE GCD(_, _)
GCD(a, b) == IF b = 0 THEN a ELSE GCD(b, a % b)

RLess(p, q) ==
    LET g == GCD(p[2], q[2])
    IN  p[1] * (q[2] \div g) < q[1] * (p[2] \div g)

REq(p, q) ==
    LET g == GCD(p[2], q[2])
    IN  p[1] * (q[2] \div g) = q[1] * (p[2] \div g)

RMul(p, q) ==
    LET n == p[1] * q[1]
        d == p[2] * q[2]
        g == GCD(Abs(n), d)
    IN  <<n \div g, d \div g>>

RECURSIVE RPow(_, _)
RPow(p, n) == IF n = 0 THEN <<1, 1>> ELSE RMul(p, RPow(p, n - 1))

EpsFloor == <<1, 10>>

\* Python max(0.1, x): x only when it is greater than the first argument.
RMaxFloor(x) == IF RLess(EpsFloor, x) THEN x ELSE EpsFloor

\* ------------------------------------------------------- StationPlacementRL data
city_bounds == [min_lat |-> 202000, max_lat |-> 204000,
                min_lon |-> 857000, max_lon |-> 859500]

demand_centers ==
    << [lat |-> 202961, lon |-> 858245, weight |-> 10, name |-> "City Center"],
       [lat |-> 202644, lon |-> 858281, weight |-> 9,  name |-> "KIIT Area"],
       [lat |-> 203100, lon |-> 858500, weight |-> 8,  name |-> "Patia IT Hub"],
       [lat |-> 202500, lon |-> 858500, weight |-> 7,  name |-> "Railway Station"],
       [lat |-> 203000, lon |-> 858800, weight |-> 6,  name |-> "Airport Area"] >>

\* demand_centers[:num_stations] for num_stations >= 0
CentersPrefix(n) == SubSeq(demand_centers, 1, Min2(n, Len(demand_centers)))

\* ------------------------------------------------------------------- geometry
\* _haversine_distance, in decametres.  Over the city's bounding box the
\* great-circle distance is the planar one to within 0.1 percent: 1e-4 degree of
\* latitude is 1.112 dam and 1e-4 degree of longitude (at 20.3 N) is 1.043 dam.
haversine_distance(lat1, lon1, lat2, lon2) ==
    LET dy == (Abs(lat2 - lat1) * 1112) \div 1000
        dx == (Abs(lon2 - lon1) * 1043) \div 1000
    IN  ISqrt(dx * dx + dy * dy)

\* min over the stations of the distance from a center (inner loop of
\* calculate_reward and _calculate_avg_distance_to_demand); float('inf') for
\* no station is not needed: callers pass a non-empty placement.
RECURSIVE MinDist(_, _)
MinDist(center, stations) ==
    LET d == haversine_distance(center.lat, center.lon,
                                Head(stations).lat, Head(stations).lon)
    IN  IF Len(stations) = 1 THEN d
        ELSE Min2(d, MinDist(center, Tail(stations)))

\* Faulty variant of calculate_coverage: no break after the first station in
\* range, so a center counts once per station within 2 km.
calculate_coverage_NoBreak(stations) ==
    IF stations = <<>> THEN 0
    ELSE LET covered == {p \in (DOMAIN demand_centers) \X (DOMAIN stations) :
                            haversine_distance(demand_centers[p[1]].lat,
                                               demand_centers[p[1]].lon,
                                               stations[p[2]].lat,
                                               stations[p[2]].lon) <= 200}
         IN  (Cardinality(covered) * 1000) \div Len(demand_centers)

\* _calculate_coverage, in thousandths.
calculate_coverage(stations) ==
    IF stations = <<>> THEN 0
    ELSE LET covered == {c \in DOMAIN demand_centers :
                            \E s \in DOMAIN stations :
                                haversine_distance(demand_centers[c].lat,
                                                   demand_centers[c].lon,
                                                   stations[s].lat,
                                                   stations[s].lon) <= 200}
         IN  (Cardinality(covered) * 1000) \div Len(demand_centers)

PairDists(stations) ==
    [p \in {q \in (DOMAIN stations) \X (DOMAIN stations) : q[1] < q[2]} |->
        haversine_distance(stations[p[1]].lat, stations[p[1]].lon,
                           stations[p[2]].lat, stations[p[2]].lon)]

RECURSIVE SumFn(_, _)
SumFn(f, S) ==
    IF S = {} THEN 0
    ELSE LET x == CHOOSE y \in S : TRUE IN f[x] + SumFn(f, S \ {x})

\* Faulty variant of calculate_spread: a mean distance under 1 km is
\* interpolated too.
calculate_spread_NoLowerCut(stations) ==
    IF Len(stations) < 2 THEN 0
    ELSE LET pd == PairDists(stations)
             total_dist == SumFn(pd, DOMAIN pd)
             count == Cardinality(DOMAIN pd)
         IN  IF total_dist > 500 * count THEN 1000
             ELSE (total_dist * 2) \div count

\* _calculate_spread, in thousandths.
calculate_spread(stations) ==
    IF Len(stations) < 2 THEN 0
    ELSE LET pd == PairDists(stations)
             total_dist == SumFn(pd, DOMAIN pd)
             count == Cardinality(DOMAIN pd)
         IN  IF total_dist < 100 * count THEN 0
             ELSE IF total_dist > 500 * count THEN 1000
             ELSE (total_dist * 2) \div count

\* total_distance of calculate_reward: sum of min_dist * weight (dam * tenths).
WeightedTotal(placement) ==
    SumSeq([c \in DOMAIN demand_centers |->
               MinDist(demand_centers[c], placement) * demand_centers[c].weight])

\* Faulty variant of calculate_reward: no sentinel for the empty placement,
\* whose terms then add up to 0.
calculate_reward_NoSentinel(placement) ==
    IF placement = <<>> THEN 0
    ELSE LET distance_score == -2 * WeightedTotal(placement)
             coverage_score == calculate_coverage(placement) * 100
             spread_score == calculate_spread(placement) * 50
         IN  distance_score + coverage_score + spread_score

\* Faulty variant of calculate_reward: the distances are not weighted.
calculate_reward_Unweighted(placement) ==
    IF placement = <<>> THEN -1000000
    ELSE LET distance_score ==
                 -20 * SumSeq([c \in DOMAIN demand_centers |->
                                  MinDist(demand_centers[c], placement)])
             coverage_score == calculate_coverage(placement) * 100
             spread_score == calculate_spread(placement) * 50
         IN  distance_score + coverage_score + spread_score

\* calculate_reward, in thousandths:
\*   -avg_distance*10 = -(total/(100*10*5))*10, i.e. -2*total thousandths;
\*   coverage*100 and spread*50 on thousandths.
calculate_reward(placement) ==
    IF placement = <<>> THEN -1000000
    ELSE LET distance_score == -2 * WeightedTotal(placement)
             coverage_score == calculate_coverage(placement) * 100
             spread_score == calculate_spread(placement) * 50
         IN  distance_score + coverage_score + spread_score

\* ------------------------------------------------------------ station records
Digit(d) == SubSeq("0123456789", d + 1, d + 1)

RECURSIVE NatStr(_)
NatStr(n) == IF n < 10 THEN Digit(n) ELSE NatStr(n \div 10) \o Digit(n % 10)

\* f'ST{n:02d}'
StationId(n) == "ST" \o (IF n < 10 THEN "0" \o NatStr(n) ELSE NatStr(n))

\* int(np.ceil(np.sqrt(n))) for n >= 0
GridSize(n) == LET r == ISqrt(n) IN IF r * r = n THEN r ELSE r + 1

GridLat(i, n) ==
    city_bounds.min_lat
      + (((i \div GridSize(n)) * (city_bounds.max_lat - city_bounds.min_lat))
            \div GridSize(n))

GridLon(i, n) ==
    city_bounds.min_lon
      + (((i % GridSize(n)) * (city_bounds.max_lon - city_bounds.min_lon))
            \div GridSize(n))

\* One outcome of random.uniform(min_lat, max_lat) / (min_lon, max_lon): draw
\* number i of the batch of draws that sample s stands for.
UniformLat(s, i) == city_bounds.min_lat + ((i * 37 + s * 53) % 21) * 100

UniformLon(s, i) == city_bounds.min_lon + ((i * 41 + s * 29) % 26) * 100

\* One outcome of random.uniform(-0.01, 0.01).
Jitter(s, i) == (((i + s) % 3) - 1) * 100

\* np.clip
Clip(v, lo, hi) == IF v < lo THEN lo ELSE IF v > hi THEN hi ELSE v

\* Index sequence 0..n-1 (range(n)); empty for n <= 0.
Range(n) == [k \in 1..n |-> k - 1]

\* The string f'{kind}_{i}' an arm id <<kind, i>> stands for.
ArmIdStr(id) == id[1] \o "_" \o NatStr(id[2])

\* Faulty variant of generate_candidate_placements: the random arms reuse the
\* ids of the grid arms.
generate_candidate_placements_DupId(n, s) ==
    [k \in DOMAIN CentersPrefix(n) |->
        [id |-> <<"strategic", k - 1>>,
         lat |-> demand_centers[k].lat, lon |-> demand_centers[k].lon,
         type |-> "strategic", name |-> demand_centers[k].name]]
    \o
    [k \in 1..n |->
        [id |-> <<"grid", k - 1>>,
         lat |-> Clip(GridLat(k - 1, n) + Jitter(s, 2 * k),
                      city_bounds.min_lat, city_bounds.max_lat),
         lon |-> Clip(GridLon(k - 1, n) + Jitter(s, 2 * k + 1),
                      city_bounds.min_lon, city_bounds.max_lon),
         type |-> "grid", name |-> "Grid Station " \o NatStr(k)]]
    \o
    [k \in 1..n |->
        [id |-> <<"grid", k - 1>>,
         lat |-> UniformLat(s, n + k), lon |-> UniformLon(s, n + k),
         type |-> "random", name |-> "Random Station " \o NatStr(k)]]

\* generate_candidate_placements for num_stations = n >= 0; s is the outcome
\* of the random draws.  An arm's id f'{kind}_{i}' is the pair <<kind, i>>.
generate_candidate_placements(n, s) ==
    [k \in DOMAIN CentersPrefix(n) |->
        [id |-> <<"strategic", k - 1>>,
         lat |-> demand_centers[k].lat, lon |-> demand_centers[k].lon,
         type |-> "strategic", name |-> demand_centers[k].name]]
    \o
    [k \in 1..n |->
        [id |-> <<"grid", k - 1>>,
         lat |-> Clip(GridLat(k - 1, n) + Jitter(s, 2 * k),
                      city_bounds.min_lat, city_bounds.max_lat),
         lon |-> Clip(GridLon(k - 1, n) + Jitter(s, 2 * k + 1),
                      city_bounds.min_lon, city_bounds.max_lon),
         type |-> "grid", name |-> "Grid Station " \o NatStr(k)]]
    \o
    [k \in 1..n |->
        [id |-> <<"random", k - 1>>,
         lat |-> UniformLat(s, n + k), lon |-> UniformLon(s, n + k),
         type |-> "random", name |-> "Random Station " \o NatStr(k)]]

\* Faulty variant of create_placement_from_arm: the grid branch jitters the
\* grid points as generate_candidate_placements does.
create_placement_from_arm_GridJitter(arm, n, s) ==
    IF arm.type = "strategic" THEN
        [k \in DOMAIN CentersPrefix(n) |->
            [station_id |-> StationId(k),
             lat |-> demand_centers[k].lat, lon |-> demand_centers[k].lon,
             name |-> demand_centers[k].name, type |-> "strategic"]]
    ELSE IF arm.type = "grid" THEN
        [k \in 1..n |->
            [station_id |-> StationId(k),
             lat |-> GridLat(k - 1, n) + Jitter(s, k), lon |-> GridLon(k - 1, n),
             name |-> "Grid Station " \o NatStr(k), type |-> "grid"]]
    ELSE
        [k \in 1..n |->
            [station_id |-> StationId(k),
             lat |-> UniformLat(s, k), lon |-> UniformLon(s, k),
             name |-> "Random Station " \o NatStr(k), type |-> "random"]]

\* Faulty variant of create_placement_from_arm: the station ids of the grid
\* branch count from 0 (f'ST{i:02d}').
create_placement_from_arm_ZeroBased(arm, n, s) ==
    IF arm.type = "strategic" THEN
        [k \in DOMAIN CentersPrefix(n) |->
            [station_id |-> StationId(k),
             lat |-> demand_centers[k].lat, lon |-> demand_centers[k].lon,
             name |-> demand_centers[k].name, type |-> "strategic"]]
    ELSE IF arm.type = "grid" THEN
        [k \in 1..n |->
            [station_id |-> StationId(k - 1),
             lat |-> GridLat(k - 1, n), lon |-> GridLon(k - 1, n),
             name |-> "Grid Station " \o NatStr(k), type |-> "grid"]]
    ELSE
        [k \in 1..n |->
            [station_id |-> StationId(k),
             lat |-> UniformLat(s, k), lon |-> UniformLon(s, k),
             name |-> "Random Station " \o NatStr(k), type |-> "random"]]

\* Faulty variant of create_placement_from_arm: the first station of a
\* strategic or grid placement is put at the arm's own lat/lon.
create_placement_from_arm_ArmSite(arm, n, s) ==
    IF arm.type = "strategic" THEN
        [k \in DOMAIN CentersPrefix(n) |->
            [station_id |-> StationId(k),
             lat |-> IF k = 1 THEN arm.lat ELSE demand_centers[k].lat,
             lon |-> IF k = 1 THEN arm.lon ELSE demand_centers[k].lon,
             name |-> demand_centers[k].name, type |-> "strategic"]]
    ELSE IF arm.type = "grid" THEN
        [k \in 1..n |->
            [station_id |-> StationId(k),
             lat |-> IF k = 1 THEN arm.lat ELSE GridLat(k - 1, n),
             lon |-> IF k = 1 THEN arm.lon ELSE GridLon(k - 1, n),
             name |-> "Grid Station " \o NatStr(k), type |-> "grid"]]
    ELSE
        [k \in 1..n |->
            [station_id |-> StationId(k),
             lat |-> UniformLat(s, k), lon |-> UniformLon(s, k),
             name |-> "Random Station " \o NatStr(k), type |-> "random"]]

\* Faulty variant of create_placement_from_arm: the random branch builds one
\* station fewer (range(self.num_stations - 1)).
create_placement_from_arm_ShortRandom(arm, n, s) ==
    IF arm.type = "strategic" THEN
        [k \in DOMAIN CentersPrefix(n) |->
            [station_id |-> StationId(k),
             lat |-> demand_centers[k].lat, lon |-> demand_centers[k].lon,
             name |-> demand_centers[k].name, type |-> "strategic"]]
    ELSE IF arm.type = "grid" THEN
        [k \in 1..n |->
            [station_id |-> StationId(k),
             lat |-> GridLat(k - 1, n), lon |-> GridLon(k - 1, n),
             name |-> "Grid Station " \o NatStr(k), type |-> "grid"]]
    ELSE
        [k \in 1..(n - 1) |->
            [station_id |-> StationId(k),
             lat |-> UniformLat(s, k), lon |-> UniformLon(s, k),
             name |-> "Random Station " \o NatStr(k), type |-> "random"]]

\* _create_placement_from_arm for a real arm (a dict); s is the outcome of the
\* random draws of the random branch.
create_placement_from_arm(arm, n, s) ==
    IF arm.type = "strategic" THEN
        [k \in DOMAIN CentersPrefix(n) |->
            [station_id |-> StationId(k),
             lat |-> demand_centers[k].lat, lon |-> demand_centers[k].lon,
             name |-> demand_centers[k].name, type |-> "strategic"]]
    ELSE IF arm.type = "grid" THEN
        [k \in 1..n |->
            [station_id |-> StationId(k),
             lat |-> GridLat(k - 1, n), lon |-> GridLon(k - 1, n),
             name |-> "Grid Station " \o NatStr(k), type |-> "grid"]]
    ELSE
        [k \in 1..n |->
            [station_id |-> StationId(k),
             lat |-> UniformLat(s, k), lon |-> UniformLon(s, k),
             name |-> "Random Station " \o NatStr(k), type |-> "random"]]

\* ----------------------------------------------------------------- UCB_Bandit
\* UCB_Bandit.__init__
UCB_Bandit(exploration_param) ==
    [c |-> exploration_param, counts |-> <<>>, rewards |-> <<>>,
     total_pulls |-> 0]

\* math.log(t) in millionths, t = 1..12.
LnMicro == <<0, 693147, 1098612, 1386294, 1609438, 1791759,
             1945910, 2079442, 2197225, 2302585, 2397895, 2484907>>

\* math.sqrt(math.log(total_pulls) / count), in units of 1e-4.
Confidence(total_pulls, count) == ISqrt((LnMicro[total_pulls] * 100) \div count)

\* ucb_values[arm_id] times counts[arm_id], in units of 1e-4: the mean of
\* the history (thousandths) plus c times the confidence term.
UCBScaled(b, id) ==
    LET hist == Get(b.rewards, id, <<>>)
        n == Get(b.counts, id, 0)
        avg_times_n == IF hist = <<>> THEN 0
                       ELSE (SumSeq(hist) * 10 * n) \div Len(hist)
    IN  avg_times_n + b.c * Confidence(b.total_pulls, n) * n

\* ucb_values[a] > ucb_values[b]
UCBGreater(b, ida, idb) ==
    UCBScaled(b, ida) * Get(b.counts, idb, 0)
        > UCBScaled(b, idb) * Get(b.counts, ida, 0)

\* Faulty variant of UCBMaxFrom: a later arm of equal value replaces the best (>=).
RECURSIVE UCBMaxFrom_LastWins(_, _, _, _)
UCBMaxFrom_LastWins(b, arms, i, best) ==
    IF i > Len(arms) THEN best
    ELSE UCBMaxFrom_LastWins(b, arms, i + 1,
            IF ~UCBGreater(b, best, arms[i].id) THEN arms[i].id ELSE best)

\* max(ucb_values, key=ucb_values.get): the keys are visited in insertion
\* order (the order of the arm list) and the first maximal one is kept.
RECURSIVE UCBMaxFrom(_, _, _, _)
UCBMaxFrom(b, arms, i, best) ==
    IF i > Len(arms) THEN best
    ELSE UCBMaxFrom(b, arms, i + 1,
                    IF UCBGreater(b, arms[i].id, best) THEN arms[i].id ELSE best)

\* next(arm for arm in arms if arm['id'] == id)
FirstWithId(arms, id) ==
    arms[CHOOSE i \in DOMAIN arms :
            /\ arms[i].id = id
            /\ \A j \in 1..(i - 1) : arms[j].id # id]

\* Faulty variant of UCB_select_arm: random.choice(arms) instead of
\* random.choice(untried_arms).
UCB_select_arm_AnyArm(b, arms) ==
    IF arms = <<>> THEN {[arm |-> None, branch |-> "empty"]}
    ELSE LET untried_arms == SelectSeq(arms, LAMBDA a : Get(b.counts, a.id, 0) = 0)
         IN  IF untried_arms # <<>> THEN
                 {[arm |-> arms[i], branch |-> "untried"] : i \in DOMAIN arms}
             ELSE IF b.total_pulls < 1 THEN
                 {[arm |-> None, branch |-> "raise"]}
             ELSE
                 LET best_arm_id == UCBMaxFrom(b, arms, 2, arms[1].id)
                 IN  {[arm |-> FirstWithId(arms, best_arm_id), branch |-> "ucb"]}

\* Faulty variant of UCB_select_arm: an arm counts as untried until its second
\* pull (counts <= 1).
UCB_select_arm_TriedOnce(b, arms) ==
    IF arms = <<>> THEN {[arm |-> None, branch |-> "empty"]}
    ELSE LET untried_arms == SelectSeq(arms, LAMBDA a : Get(b.counts, a.id, 0) <= 1)
         IN  IF untried_arms # <<>> THEN
                 {[arm |-> untried_arms[i], branch |-> "untried"]
                     : i \in DOMAIN untried_arms}
             ELSE IF b.total_pulls < 1 THEN
                 {[arm |-> None, branch |-> "raise"]}
             ELSE
                 LET best_arm_id == UCBMaxFrom(b, arms, 2, arms[1].id)
                 IN  {[arm |-> FirstWithId(arms, best_arm_id), branch |-> "ucb"]}

\* UCB_Bandit.select_arm: the set of possible outcomes, each the arm returned
\* and the branch that returned it.  random.choice is a free choice; "raise"
\* is math.log(0) (ValueError) in the UCB-value loop.
UCB_select_arm(b, arms) ==
    IF arms = <<>> THEN {[arm |-> None, branch |-> "empty"]}
    ELSE LET untried_arms == SelectSeq(arms, LAMBDA a : Get(b.counts, a.id, 0) = 0)
         IN  IF untried_arms # <<>> THEN
                 {[arm |-> untried_arms[i], branch |-> "untried"]
                     : i \in DOMAIN untried_arms}
             ELSE IF b.total_pulls < 1 THEN
                 {[arm |-> None, branch |-> "raise"]}
             ELSE
                 LET best_arm_id == UCBMaxFrom(b, arms, 2, arms[1].id)
                 IN  {[arm |-> FirstWithId(arms, best_arm_id), branch |-> "ucb"]}

\* Faulty variant of UCB_update: total_pulls is not incremented.
UCB_update_NoTotal(b, arm, reward) ==
    [b EXCEPT
        !.counts = [k \in (DOMAIN b.counts) \cup {arm.id} |->
                       IF k = arm.id THEN Get(b.counts, k, 0) + 1 ELSE b.counts[k]],
        !.rewards = [k \in (DOMAIN b.rewards) \cup {arm.id} |->
                       IF k = arm.id THEN Append(Get(b.rewards, k, <<>>), reward)
                       ELSE b.rewards[k]]]

\* Faulty variant of UCB_update: the arm's pull count is not incremented.
UCB_update_NoCount(b, arm, reward) ==
    [b EXCEPT
        !.rewards = [k \in (DOMAIN b.rewards) \cup {arm.id} |->
                       IF k = arm.id THEN Append(Get(b.rewards, k, <<>>), reward)
                       ELSE b.rewards[k]],
        !.total_pulls = b.total_pulls + 1]

\* UCB_Bandit.update
UCB_update(b, arm, reward) ==
    [b EXCEPT
        !.counts = [k \in (DOMAIN b.counts) \cup {arm.id} |->
                       IF k = arm.id THEN Get(b.counts, k, 0) + 1 ELSE b.counts[k]],
        !.rewards = [k \in (DOMAIN b.rewards) \cup {arm.id} |->
                       IF k = arm.id THEN Append(Get(b.rewards, k, <<>>), reward)
                       ELSE b.rewards[k]],
        !.total_pulls = b.total_pulls + 1]

\* -------------------------------------------------------- EpsilonGreedy_Bandit
\* EpsilonGreedy_Bandit.__init__
EpsilonGreedy_Bandit(epsilon, epsilon_decay) ==
    [epsilon |-> epsilon, initial_epsilon |-> epsilon,
     epsilon_decay |-> epsilon_decay, rewards |-> <<>>, counts |-> <<>>]

\* np.mean(rewards[a]) > np.mean(rewards[b]), both histories non-empty.
MeanGreater(b, ida, idb) ==
    SumSeq(Get(b.rewards, ida, <<>>)) * Len(Get(b.rewards, idb, <<>>))
        > SumSeq(Get(b.rewards, idb, <<>>)) * Len(Get(b.rewards, ida, <<>>))

\* The exploit loop of EpsilonGreedy_Bandit.select_arm from position i on:
\* best is the index of best_arm in arms, 0 for None (best_avg = -inf).
RECURSIVE ExploitFrom(_, _, _, _)
ExploitFrom(b, arms, i, best) ==
    IF i > Len(arms) THEN best
    ELSE ExploitFrom(b, arms, i + 1,
            IF /\ Get(b.rewards, arms[i].id, <<>>) # <<>>
               /\ \/ best = 0
                  \/ MeanGreater(b, arms[i].id, arms[best].id)
            THEN i ELSE best)

\* Faulty variant of Eps_select_arm: explores when random.random() <= epsilon.
Eps_select_arm_ExploreAtZero(b, arms) ==
    IF arms = <<>> THEN {[arm |-> None, branch |-> "empty"]}
    ELSE
        (IF ~RLess(b.epsilon, <<0, 1>>)
         THEN {[arm |-> arms[i], branch |-> "explore"] : i \in DOMAIN arms}
         ELSE {})
        \cup
        (IF RLess(b.epsilon, <<1, 1>>)
         THEN LET best == ExploitFrom(b, arms, 1, 0)
              IN  IF best # 0
                  THEN {[arm |-> arms[best], branch |-> "exploit"]}
                  ELSE {[arm |-> arms[i], branch |-> "fallback"] : i \in DOMAIN arms}
         ELSE {})

\* Faulty variant of Eps_select_arm: return best_arm without the fallback to
\* random.choice(arms).
Eps_select_arm_NoFallback(b, arms) ==
    IF arms = <<>> THEN {[arm |-> None, branch |-> "empty"]}
    ELSE
        (IF RLess(<<0, 1>>, b.epsilon)
         THEN {[arm |-> arms[i], branch |-> "explore"] : i \in DOMAIN arms}
         ELSE {})
        \cup
        (IF RLess(b.epsilon, <<1, 1>>)
         THEN LET best == ExploitFrom(b, arms, 1, 0)
              IN  IF best # 0
                  THEN {[arm |-> arms[best], branch |-> "exploit"]}
                  ELSE {[arm |-> None, branch |-> "fallback"]}
         ELSE {})

\* EpsilonGreedy_Bandit.select_arm: the set of possible outcomes.
\* random.random() lies in [0, 1): it can be below epsilon iff epsilon > 0 and
\* can be at least epsilon iff epsilon < 1.
Eps_select_arm(b, arms) ==
    IF arms = <<>> THEN {[arm |-> None, branch |-> "empty"]}
    ELSE
        (IF RLess(<<0, 1>>, b.epsilon)
         THEN {[arm |-> arms[i], branch |-> "explore"] : i \in DOMAIN arms}
         ELSE {})
        \cup
        (IF RLess(b.epsilon, <<1, 1>>)
         THEN LET best == ExploitFrom(b, arms, 1, 0)
              IN  IF best # 0
                  THEN {[arm |-> arms[best], branch |-> "exploit"]}
                  ELSE {[arm |-> arms[i], branch |-> "fallback"] : i \in DOMAIN arms}
         ELSE {})

\* Faulty variant of Eps_update: the arm's history is replaced by the new
\* reward.
Eps_update_Replace(b, arm, reward) ==
    [b EXCEPT
        !.counts = [k \in (DOMAIN b.counts) \cup {arm.id} |->
                       IF k = arm.id THEN Get(b.counts, k, 0) + 1 ELSE b.counts[k]],
        !.rewards = [k \in (DOMAIN b.rewards) \cup {arm.id} |->
                       IF k = arm.id THEN <<reward>> ELSE b.rewards[k]]]

\* EpsilonGreedy_Bandit.update
Eps_update(b, arm, reward) ==
    [b EXCEPT
        !.counts = [k \in (DOMAIN b.counts) \cup {arm.id} |->
                       IF k = arm.id THEN Get(b.counts, k, 0) + 1 ELSE b.counts[k]],
        !.rewards = [k \in (DOMAIN b.rewards) \cup {arm.id} |->
                       IF k = arm.id THEN Append(Get(b.rewards, k, <<>>), reward)
                       ELSE b.rewards[k]]]

\* Faulty variant of Eps_decay_epsilon: no floor.
Eps_decay_epsilon_NoFloor(b) ==
    [b EXCEPT !.epsilon = RMul(b.epsilon, b.epsilon_decay)]

\* EpsilonGreedy_Bandit.decay_epsilon
Eps_decay_epsilon(b) ==
    [b EXCEPT !.epsilon = RMaxFloor(RMul(b.epsilon, b.epsilon_decay))]

\* ------------------------------------------------------------------- state
VARIABLES
    \* StationPlacementRL object
    num_stations, num_episodes, ucb_bandit, epsilon_bandit, episode_rewards,
    \* frame of optimize_placement
    pc, algorithm, candidates, bandit, best_reward, best_placement, episode,
    selected_arm, placement, reward,
    \* value returned by the last completed optimize_placement
    result,
    \* history of the current run: episode_rewards' length at its start, how
    \* often each step of the loop has run, the placement of each episode,
    \* the arguments of the last bandit.update
    hist,
    \* the last call made on a bandit: operation, arguments, outcome
    call,
    \* standalone bandit use: whether the calls so far alternate
    \* select_arm(trail.arms) and update(selected arm), and what was selected
    trail,
    \* number of optimize_placement calls since construction or the last reset
    runs

vars == <<num_stations, num_episodes, ucb_bandit, epsilon_bandit,
          episode_rewards, pc, algorithm, candidates, bandit, best_reward,
          best_placement, episode, selected_arm, placement, reward, result,
          hist, call, trail, runs>>

object_vars == <<num_stations, num_episodes, ucb_bandit, epsilon_bandit,
                 episode_rewards>>

frame_vars == <<algorithm, candidates, bandit, best_reward, best_placement,
                episode, selected_arm, placement, reward>>

\* algorithm arguments: the two documented ones and any other string.
Algorithms == {"ucb", "epsilon_greedy", "other"}

NoCall == [op |-> "none"]

NoTrail == [ok |-> FALSE]

NoHist == [running |-> FALSE, returned |-> FALSE, algorithm |-> "",
           start_log |-> 0, n_select |-> 0, n_create |-> 0, n_reward |-> 0,
           n_update |-> 0, n_track |-> 0, n_append |-> 0, n_decay |-> 0,
           placements |-> <<>>, last_update |-> <<>>, best_episode |-> 0]

\* No frame of optimize_placement: before a call.
InitFrame ==
    /\ algorithm = "" /\ candidates = <<>> /\ bandit = ""
    /\ best_reward = NegInf /\ best_placement = <<>> /\ episode = 0
    /\ selected_arm = None /\ placement = <<>> /\ reward = 0
    /\ result = <<>> /\ hist = NoHist /\ call = NoCall /\ trail = NoTrail
    /\ runs = 0

\* The frame of optimize_placement is gone after its return.
DropFrame ==
    /\ algorithm' = "" /\ candidates' = <<>> /\ bandit' = ""
    /\ best_reward' = NegInf /\ best_placement' = <<>> /\ episode' = 0
    /\ selected_arm' = None /\ placement' = <<>> /\ reward' = 0

\* StationPlacementRL.__init__
Init ==
    /\ num_stations \in 0..MaxStations
    /\ num_episodes \in 0..MaxLog
    /\ ucb_bandit = UCB_Bandit(2)
    /\ epsilon_bandit = EpsilonGreedy_Bandit(<<3, 10>>, <<19, 20>>)
    /\ episode_rewards = <<>>
    /\ pc = "idle"
    /\ InitFrame

\* The bandit object the frame's variable `bandit` refers to.
ActiveBandit == IF bandit = "ucb" THEN ucb_bandit ELSE epsilon_bandit

\* Faulty variant of Start: every call begins with an empty episode log.
Start_FreshLog(alg) ==
    /\ pc = "idle"
    /\ Len(episode_rewards) + num_episodes <= MaxLog
    /\ algorithm' = alg
    /\ runs < MaxRuns
    /\ runs' = runs + 1
    /\ \E s \in 1..MaxDraws :
          candidates' = generate_candidate_placements(num_stations, s)
    /\ Len(candidates') * (Len(episode_rewards) + num_episodes) * runs' <= MaxWork
    /\ bandit' = IF alg = "ucb" THEN "ucb" ELSE "eps"
    /\ best_reward' = NegInf
    /\ best_placement' = <<>>
    /\ episode' = IF num_episodes >= 1 THEN 1 ELSE 0
    /\ pc' = IF num_episodes >= 1 THEN "select" ELSE "finish"
    /\ hist' = [NoHist EXCEPT !.running = TRUE, !.algorithm = alg,
                              !.start_log = 0]
    /\ episode_rewards' = <<>>
    /\ result' = <<>>
    /\ call' = NoCall
    /\ UNCHANGED <<num_stations, num_episodes, ucb_bandit, epsilon_bandit,
                   selected_arm, placement, reward, trail>>

\* optimize_placement up to the loop: candidates, the bandit, best_reward and
\* best_placement; range(1, num_episodes + 1) is empty for num_episodes < 1.
Start(alg) ==
    /\ pc = "idle"
    /\ Len(episode_rewards) + num_episodes <= MaxLog
    /\ algorithm' = alg
    /\ runs < MaxRuns
    /\ runs' = runs + 1
    /\ \E s \in 1..MaxDraws :
          candidates' = generate_candidate_placements(num_stations, s)
    /\ Len(candidates') * (Len(episode_rewards) + num_episodes) * runs' <= MaxWork
    /\ bandit' = IF alg = "ucb" THEN "ucb" ELSE "eps"
    /\ best_reward' = NegInf
    /\ best_placement' = <<>>
    /\ episode' = IF num_episodes >= 1 THEN 1 ELSE 0
    /\ pc' = IF num_episodes >= 1 THEN "select" ELSE "finish"
    /\ hist' = [NoHist EXCEPT !.running = TRUE, !.algorithm = alg,
                              !.start_log = Len(episode_rewards)]
    /\ result' = <<>>
    /\ call' = NoCall
    /\ UNCHANGED <<object_vars, selected_arm, placement, reward, trail>>

\* Faulty variant of SelectArm: the UCB selection already counts as a pull.
SelectArm_Counts ==
    /\ pc = "select"
    /\ \E o \in (IF bandit = "ucb" THEN UCB_select_arm(ucb_bandit, candidates)
                 ELSE Eps_select_arm(epsilon_bandit, candidates)) :
          /\ selected_arm' = o.arm
          /\ call' = [op |-> "select", policy |-> bandit, arm |-> o.arm,
                      branch |-> o.branch]
          /\ pc' = IF o.branch = "raise" THEN "raised" ELSE "create"
    /\ hist' = [hist EXCEPT !.n_select = @ + 1]
    /\ ucb_bandit' = IF bandit = "ucb"
                     THEN [ucb_bandit EXCEPT !.total_pulls = @ + 1]
                     ELSE ucb_bandit
    /\ UNCHANGED <<num_stations, num_episodes, epsilon_bandit, episode_rewards,
                   algorithm, candidates, bandit, best_reward,
                   best_placement, episode, placement, reward, result, trail, runs>>

\* selected_arm = bandit.select_arm(candidates)
SelectArm ==
    /\ pc = "select"
    /\ \E o \in (IF bandit = "ucb" THEN UCB_select_arm(ucb_bandit, candidates)
                 ELSE Eps_select_arm(epsilon_bandit, candidates)) :
          /\ selected_arm' = o.arm
          /\ call' = [op |-> "select", policy |-> bandit, arm |-> o.arm,
                      branch |-> o.branch]
          /\ pc' = IF o.branch = "raise" THEN "raised" ELSE "create"
    /\ hist' = [hist EXCEPT !.n_select = @ + 1]
    /\ UNCHANGED <<object_vars, algorithm, candidates, bandit, best_reward,
                   best_placement, episode, placement, reward, result, trail, runs>>

\* placement = self._create_placement_from_arm(selected_arm); arm['type'] of
\* None raises TypeError.
CreatePlacement ==
    /\ pc = "create"
    /\ IF selected_arm = None
       THEN /\ pc' = "raised"
            /\ UNCHANGED <<placement, hist>>
       ELSE /\ \E s \in 1..MaxSamples :
                  placement' = create_placement_from_arm(selected_arm, num_stations, s)
            /\ hist' = [hist EXCEPT !.n_create = @ + 1,
                                    !.placements = Append(@, placement')]
            /\ pc' = "reward"
    /\ UNCHANGED <<object_vars, algorithm, candidates, bandit, best_reward,
                   best_placement, episode, selected_arm, reward, result, call, trail, runs>>

\* Faulty variant of CalculateReward: the value drifts with the episode number.
CalculateReward_Drift ==
    /\ pc = "reward"
    /\ reward' = calculate_reward(placement) + episode
    /\ hist' = [hist EXCEPT !.n_reward = @ + 1]
    /\ pc' = "update"
    /\ UNCHANGED <<object_vars, algorithm, candidates, bandit, best_reward,
                   best_placement, episode, selected_arm, placement, result, call, trail, runs>>

\* reward = self.calculate_reward(placement)
CalculateReward ==
    /\ pc = "reward"
    /\ reward' = calculate_reward(placement)
    /\ hist' = [hist EXCEPT !.n_reward = @ + 1]
    /\ pc' = "update"
    /\ UNCHANGED <<object_vars, algorithm, candidates, bandit, best_reward,
                   best_placement, episode, selected_arm, placement, result, call, trail, runs>>

\* bandit.update(selected_arm, reward)
BanditUpdate ==
    /\ pc = "update"
    /\ IF bandit = "ucb"
       THEN /\ ucb_bandit' = UCB_update(ucb_bandit, selected_arm, reward)
            /\ UNCHANGED epsilon_bandit
       ELSE /\ epsilon_bandit' = Eps_update(epsilon_bandit, selected_arm, reward)
            /\ UNCHANGED ucb_bandit
    /\ call' = [op |-> "update", policy |-> bandit, arm |-> selected_arm,
                reward |-> reward]
    /\ hist' = [hist EXCEPT !.n_update = @ + 1,
                            !.last_update = <<selected_arm.id, reward>>]
    /\ pc' = "track"
    /\ UNCHANGED <<num_stations, num_episodes, episode_rewards, frame_vars,
                   result, trail, runs>>

\* Faulty variant of TrackBest: an equal reward replaces the best (>=).
TrackBest_GE ==
    /\ pc = "track"
    /\ IF reward >= best_reward
       THEN /\ best_reward' = reward
            /\ best_placement' = <<placement>>
            /\ hist' = [hist EXCEPT !.n_track = @ + 1, !.best_episode = episode]
       ELSE /\ UNCHANGED <<best_reward, best_placement>>
            /\ hist' = [hist EXCEPT !.n_track = @ + 1]
    /\ pc' = "append"
    /\ UNCHANGED <<object_vars, algorithm, candidates, bandit, episode,
                   selected_arm, placement, reward, result, call, trail, runs>>

\* if reward > best_reward: best_reward = reward; best_placement = placement.copy()
TrackBest ==
    /\ pc = "track"
    /\ IF reward > best_reward
       THEN /\ best_reward' = reward
            /\ best_placement' = <<placement>>
            /\ hist' = [hist EXCEPT !.n_track = @ + 1, !.best_episode = episode]
       ELSE /\ UNCHANGED <<best_reward, best_placement>>
            /\ hist' = [hist EXCEPT !.n_track = @ + 1]
    /\ pc' = "append"
    /\ UNCHANGED <<object_vars, algorithm, candidates, bandit, episode,
                   selected_arm, placement, reward, result, call, trail, runs>>

\* self.episode_rewards.append(reward)
AppendReward ==
    /\ pc = "append"
    /\ episode_rewards' = Append(episode_rewards, reward)
    /\ hist' = [hist EXCEPT !.n_append = @ + 1]
    /\ pc' = "decay"
    /\ UNCHANGED <<num_stations, num_episodes, ucb_bandit, epsilon_bandit,
                   frame_vars, result, call, trail, runs>>

\* Faulty variant of DecayEpsilon: the loop runs one episode more.
DecayEpsilon_OneMore ==
    /\ pc = "decay"
    /\ IF algorithm = "epsilon_greedy"
       THEN /\ epsilon_bandit' = Eps_decay_epsilon(epsilon_bandit)
            /\ hist' = [hist EXCEPT !.n_decay = @ + 1]
            /\ call' = [op |-> "decay", policy |-> bandit]
       ELSE UNCHANGED <<epsilon_bandit, hist, call>>
    /\ IF episode <= num_episodes
       THEN /\ episode' = episode + 1
            /\ pc' = "select"
       ELSE /\ pc' = "finish"
            /\ UNCHANGED episode
    /\ UNCHANGED <<num_stations, num_episodes, ucb_bandit, episode_rewards,
                   algorithm, candidates, bandit, best_reward, best_placement,
                   selected_arm, placement, reward, result, trail, runs>>

\* if algorithm == 'epsilon_greedy': bandit.decay_epsilon(); then the next
\* episode of the for loop, or the end of the loop.  A UCB_Bandit has no
\* decay_epsilon, but algorithm == 'epsilon_greedy' implies bandit is the
\* epsilon-greedy one.
DecayEpsilon ==
    /\ pc = "decay"
    /\ IF algorithm = "epsilon_greedy"
       THEN /\ epsilon_bandit' = Eps_decay_epsilon(epsilon_bandit)
            /\ hist' = [hist EXCEPT !.n_decay = @ + 1]
            /\ call' = [op |-> "decay", policy |-> bandit]
       ELSE UNCHANGED <<epsilon_bandit, hist, call>>
    /\ IF episode < num_episodes
       THEN /\ episode' = episode + 1
            /\ pc' = "select"
       ELSE /\ pc' = "finish"
            /\ UNCHANGED episode
    /\ UNCHANGED <<num_stations, num_episodes, ucb_bandit, episode_rewards,
                   algorithm, candidates, bandit, best_reward, best_placement,
                   selected_arm, placement, reward, result, trail, runs>>

\* The closing log lines and return best_placement; len(None) raises TypeError.
Finish ==
    /\ pc = "finish"
    /\ IF best_placement = <<>>
       THEN /\ pc' = "raised"
            /\ UNCHANGED <<result, frame_vars>>
            /\ hist' = [hist EXCEPT !.running = FALSE]
       ELSE /\ pc' = "idle"
            /\ result' = best_placement
            /\ DropFrame
            /\ hist' = [hist EXCEPT !.running = FALSE, !.returned = TRUE]
    /\ UNCHANGED <<object_vars, call, trail, runs>>

\* main: rl_system.ucb_bandit = UCB_Bandit(); rl_system.epsilon_bandit =
\* EpsilonGreedy_Bandit(); rl_system.episode_rewards = []
ResetBandits ==
    /\ pc = "idle"
    /\ ucb_bandit' = UCB_Bandit(2)
    /\ epsilon_bandit' = EpsilonGreedy_Bandit(<<3, 10>>, <<19, 20>>)
    /\ episode_rewards' = <<>>
    /\ hist' = NoHist
    /\ call' = NoCall
    /\ runs' = 0
    /\ UNCHANGED <<num_stations, num_episodes, pc, frame_vars, result, trail>>

\* max(self.episode_rewards) if self.episode_rewards else 0
RECURSIVE MaxFrom(_, _, _)
MaxFrom(seq, i, best) ==
    IF i > Len(seq) THEN best
    ELSE MaxFrom(seq, i + 1, IF seq[i] > best THEN seq[i] ELSE best)

\* Faulty variant of save_results_final_reward: the last entry of the log.
save_results_final_reward_Last(rewards) ==
    IF rewards = <<>> THEN 0 ELSE rewards[Len(rewards)]

\* The 'final_reward' entry of the record save_results writes.
save_results_final_reward(rewards) ==
    IF rewards = <<>> THEN 0 ELSE MaxFrom(rewards, 2, rewards[1])

\* main: rl_system.save_results(placement) with the placement the last
\* optimize_placement returned; the entries of the written record that depend
\* on the optimizer.  The object is only read.
SaveResults ==
    /\ pc = "idle"
    /\ hist.returned
    /\ call' = [op |-> "save_results", placement |-> result[1],
                num_stations |-> Len(result[1]),
                num_episodes |-> num_episodes,
                episode_rewards |-> episode_rewards,
                final_reward |-> save_results_final_reward(episode_rewards)]
    /\ UNCHANGED <<object_vars, pc, frame_vars, result, hist, trail, runs>>

Next ==
    \/ \E alg \in Algorithms : Start(alg)
    \/ SelectArm
    \/ CreatePlacement
    \/ CalculateReward
    \/ BanditUpdate
    \/ TrackBest
    \/ AppendReward
    \/ DecayEpsilon
    \/ Finish
    \/ ResetBandits
    \/ SaveResults

Spec == Init /\ [][Next]_vars

\* ------------------------------------------------- standalone bandit calls
\* A caller other than optimize_placement drives one bandit object directly:
\* select_arm on any list of distinct arms, update with any arm and reward.
BanditArm(i) == [id |-> <<"arm", i>>, type |-> "random"]

\* Arm lists given to select_arm: lists without repetition, in ascending or
\* in descending order of the arm number.  An id is an opaque dict key to both
\* policies, so every list is one of these up to a renaming of the arms; the
\* two orders keep the position in the list apart from the arm number.
ArmLists ==
    {l \in UNION {[1..n -> {BanditArm(i) : i \in 0..(MaxArms - 1)}] : n \in 0..MaxArms} :
        \/ \A i, j \in DOMAIN l : i < j => l[i].id[2] < l[j].id[2]
        \/ \A i, j \in DOMAIN l : i < j => l[i].id[2] > l[j].id[2]}

\* Rewards given to update, in thousandths.
Rewards == {0, 1000}

\* Constructor arguments tried for EpsilonGreedy_Bandit(epsilon=...).
EpsilonValues == {<<0, 1>>, <<3, 10>>, <<1, 1>>}

FreshTrail == [ok |-> TRUE, arms |-> <<>>, picks |-> <<>>, branches |-> <<>>,
               expect |-> "select"]

InitB ==
    /\ num_stations = 0
    /\ num_episodes = 0
    /\ episode_rewards = <<>>
    /\ pc = "bandit"
    /\ algorithm = "" /\ candidates = <<>>
    /\ best_reward = NegInf /\ best_placement = <<>> /\ episode = 0
    /\ selected_arm = None /\ placement = <<>> /\ reward = 0
    /\ result = <<>> /\ hist = NoHist /\ call = NoCall /\ runs = 0
    /\ ucb_bandit = UCB_Bandit(2)
    /\ \/ /\ bandit = "ucb"
          /\ trail = FreshTrail
          /\ epsilon_bandit = EpsilonGreedy_Bandit(<<3, 10>>, <<19, 20>>)
       \/ /\ bandit = "eps"
          /\ trail = NoTrail
          /\ \E e \in EpsilonValues :
                epsilon_bandit = EpsilonGreedy_Bandit(e, <<19, 20>>)

\* Number of update calls the bandit under test has received.
Pulls ==
    IF bandit = "ucb" THEN ucb_bandit.total_pulls
    ELSE SumFn(epsilon_bandit.counts, DOMAIN epsilon_bandit.counts)

\* bandit.select_arm(arms)
SelectCall(arms) ==
    /\ pc = "bandit"
    /\ \E o \in (IF bandit = "ucb" THEN UCB_select_arm(ucb_bandit, arms)
                 ELSE Eps_select_arm(epsilon_bandit, arms)) :
          /\ call' = [op |-> "select", policy |-> bandit, arms |-> arms,
                      arm |-> o.arm, branch |-> o.branch]
          /\ trail' = IF /\ trail.ok
                         /\ trail.expect = "select"
                         /\ Len(trail.picks) <= MaxPulls
                         /\ (trail.picks = <<>> \/ trail.arms = arms)
                         /\ o.arm # None
                      THEN [ok |-> TRUE, arms |-> arms,
                            picks |-> Append(trail.picks, o.arm),
                            branches |-> Append(trail.branches, o.branch),
                            expect |-> "update"]
                      ELSE NoTrail
    /\ UNCHANGED <<object_vars, pc, frame_vars, result, hist, runs>>

\* bandit.update(arm, reward)
UpdateCall(arm, r) ==
    /\ pc = "bandit"
    /\ Pulls < MaxPulls
    /\ IF bandit = "ucb"
       THEN /\ ucb_bandit' = UCB_update(ucb_bandit, arm, r)
            /\ UNCHANGED epsilon_bandit
       ELSE /\ epsilon_bandit' = Eps_update(epsilon_bandit, arm, r)
            /\ UNCHANGED ucb_bandit
    /\ call' = [op |-> "update", policy |-> bandit, arm |-> arm,
                reward |-> r]
    /\ trail' = IF /\ trail.ok
                   /\ trail.expect = "update"
                   /\ arm = trail.picks[Len(trail.picks)]
                THEN [trail EXCEPT !.expect = "select"]
                ELSE NoTrail
    /\ hist' = [hist EXCEPT !.n_update = @ + 1]
    /\ UNCHANGED <<num_stations, num_episodes, episode_rewards, pc, frame_vars,
                   result, runs>>

NextB ==
    \/ \E arms \in ArmLists : SelectCall(arms)
    \/ \E i \in 0..(MaxArms - 1), r \in Rewards : UpdateCall(BanditArm(i), r)

BanditSpec == InitB /\ [][NextB]_vars

\* ----------------------------------------------------- decay_epsilon calls
\* Constructor arguments tried for EpsilonGreedy_Bandit(epsilon, epsilon_decay).
InitialEpsilons == {<<0, 1>>, <<1, 20>>, <<1, 10>>, <<3, 10>>, <<1, 2>>, <<1, 1>>}

DecayFactors == {<<-1, 1>>, <<0, 1>>, <<1, 2>>, <<19, 20>>, <<1, 1>>, <<2, 1>>}

InitD ==
    /\ num_stations = 0
    /\ num_episodes = 0
    /\ episode_rewards = <<>>
    /\ pc = "decaying"
    /\ algorithm = "" /\ candidates = <<>> /\ bandit = "eps"
    /\ best_reward = NegInf /\ best_placement = <<>> /\ episode = 0
    /\ selected_arm = None /\ placement = <<>> /\ reward = 0
    /\ result = <<>> /\ hist = NoHist /\ call = NoCall /\ runs = 0
    /\ trail = NoTrail
    /\ ucb_bandit = UCB_Bandit(2)
    /\ \E e \in InitialEpsilons, d \in DecayFactors :
          epsilon_bandit = EpsilonGreedy_Bandit(e, d)

\* bandit.decay_epsilon()
DecayCall ==
    /\ pc = "decaying"
    /\ hist.n_decay < MaxDecays
    /\ epsilon_bandit' = Eps_decay_epsilon(epsilon_bandit)
    /\ hist' = [hist EXCEPT !.n_decay = @ + 1]
    /\ call' = [op |-> "decay", policy |-> "eps"]
    /\ UNCHANGED <<num_stations, num_episodes, ucb_bandit, episode_rewards, pc,
                   frame_vars, result, trail, runs>>

NextD == DecayCall

DecaySpec == InitD /\ [][NextD]_vars

\* ------------------------------------- reward and metrics called on their own
\* float('inf'): min_dist of _calculate_avg_distance_to_demand when the
\* placement has no station.
PosInf == 2000000000

\* _calculate_avg_distance_to_demand, in thousandths of a km (1 dam = 10):
\* the unweighted sum of the nearest-station distances over len(demand_centers).
calculate_avg_distance_to_demand(stations) ==
    IF stations = <<>> THEN PosInf
    ELSE (SumSeq([c \in DOMAIN demand_centers |->
                     MinDist(demand_centers[c], stations)]) * 10)
            \div Len(demand_centers)

\* The 'metrics' entry of the record save_results writes.
save_results_metrics(stations) ==
    [coverage |-> calculate_coverage(stations),
     avg_distance |-> calculate_avg_distance_to_demand(stations),
     spread |-> calculate_spread(stations)]

\* The helper computations one call of calculate_reward performs, in order:
\* none when the early return of the empty placement is taken.
calculate_reward_steps(stations) ==
    IF stations = <<>> THEN <<>>
    ELSE <<"total_distance", "_calculate_coverage", "_calculate_spread">>

\* Station positions of hand-made placements: the demand centers, a point
\* about 0.5 km from the City Center, and two corners of the city bounds.
Sites ==
    {[lat |-> demand_centers[c].lat, lon |-> demand_centers[c].lon] :
        c \in DOMAIN demand_centers}
    \cup {[lat |-> demand_centers[1].lat + 40, lon |-> demand_centers[1].lon + 20],
          [lat |-> city_bounds.min_lat, lon |-> city_bounds.min_lon],
          [lat |-> city_bounds.max_lat, lon |-> city_bounds.max_lon]}

\* Placements the optimizer materializes, for every kind of arm.
Materialized ==
    {create_placement_from_arm([type |-> t], n, s) :
        t \in {"strategic", "grid", "random"},
        n \in 0..MaxStations, s \in 1..MaxSamples}

\* Placements given to the reward and metric functions: lists of up to
\* MaxPlacement stations at the Sites, and the materialized placements, alone
\* or followed by one station at a Site.
Placements ==
    UNION {[1..n -> Sites] : n \in 0..MaxPlacement}
    \cup Materialized
    \cup {Append(m, x) : m \in Materialized, x \in Sites}

InitR ==
    /\ num_stations = 0
    /\ num_episodes = 0
    /\ episode_rewards = <<>>
    /\ ucb_bandit = UCB_Bandit(2)
    /\ epsilon_bandit = EpsilonGreedy_Bandit(<<3, 10>>, <<19, 20>>)
    /\ pc = "metrics"
    /\ algorithm = "" /\ candidates = <<>> /\ bandit = ""
    /\ best_reward = NegInf /\ best_placement = <<>> /\ episode = 0
    /\ selected_arm = None /\ reward = 0
    /\ result = <<>> /\ hist = NoHist /\ call = NoCall /\ trail = NoTrail
    /\ runs = 0
    /\ placement \in Placements

\* self.calculate_reward(placement)
RewardCall ==
    /\ pc = "metrics"
    /\ call' = [op |-> "calculate_reward", placement |-> placement,
                value |-> calculate_reward(placement),
                steps |-> calculate_reward_steps(placement), raised |-> FALSE]
    /\ UNCHANGED <<object_vars, pc, frame_vars, result, hist, trail, runs>>

\* self._calculate_coverage(placement)
CoverageCall ==
    /\ pc = "metrics"
    /\ call' = [op |-> "_calculate_coverage", placement |-> placement,
                value |-> calculate_coverage(placement)]
    /\ UNCHANGED <<object_vars, pc, frame_vars, result, hist, trail, runs>>

\* self._calculate_spread(placement)
SpreadCall ==
    /\ pc = "metrics"
    /\ call' = [op |-> "_calculate_spread", placement |-> placement,
                value |-> calculate_spread(placement)]
    /\ UNCHANGED <<object_vars, pc, frame_vars, result, hist, trail, runs>>

\* self.save_results(placement): the metrics of the written record.
SaveResultsCall ==
    /\ pc = "metrics"
    /\ call' = [op |-> "save_results", placement |-> placement,
                metrics |-> save_results_metrics(placement)]
    /\ UNCHANGED <<object_vars, pc, frame_vars, result, hist, trail, runs>>

NextR ==
    \/ RewardCall
    \/ CoverageCall
    \/ SpreadCall
    \/ SaveResultsCall

RewardSpec == InitR /\ [][NextR]_vars

\* ------------------------------------------- materialization called on its own
\* num_stations of main's optimizer.
MainStations == 25

\* num_stations of the optimizers whose arms are materialized: the small
\* ones, main's, and one with station numbers of three digits.
StationCounts == (0..MaxStations) \cup {MainStations, 4 * MainStations}

InitP ==
    /\ num_stations \in StationCounts
    /\ num_episodes = 0
    /\ episode_rewards = <<>>
    /\ ucb_bandit = UCB_Bandit(2)
    /\ epsilon_bandit = EpsilonGreedy_Bandit(<<3, 10>>, <<19, 20>>)
    /\ pc = "materialize"
    /\ algorithm = "" /\ bandit = ""
    /\ \E s \in 1..MaxDraws :
          candidates = generate_candidate_placements(num_stations, s)
    /\ best_reward = NegInf /\ best_placement = <<>> /\ episode = 0
    /\ selected_arm = None /\ placement = <<>> /\ reward = 0
    /\ result = <<>> /\ hist = NoHist /\ call = NoCall /\ trail = NoTrail
    /\ runs = 0

\* One call self._create_placement_from_arm(arm) for an arm of the pool.
MaterializeCall(arm) ==
    /\ pc = "materialize"
    /\ pc' = "materialized"
    /\ selected_arm' = arm
    /\ \E s \in 1..MaxSamples :
          placement' = create_placement_from_arm(arm, num_stations, s)
    /\ call' = [op |-> "_create_placement_from_arm", arm |-> arm]
    /\ UNCHANGED <<object_vars, algorithm, candidates, bandit, best_reward,
                   best_placement, episode, reward, result, hist, trail, runs>>

NextP == \E i \in DOMAIN candidates : MaterializeCall(candidates[i])

PlacementSpec == InitP /\ [][NextP]_vars

\* ===================================================================== claims
\* Steps of the episode loop at which `placement` holds this episode's placement.
HasPlacement == pc \in {"reward", "update", "track", "append", "decay"}

\* Rewards appended to episode_rewards by the current (or last) run.
RunRewards == SubSeq(episode_rewards, hist.start_log + 1, Len(episode_rewards))

\* Rewards the best-so-far has been compared with: those of the run's log, and
\* the current episode's between TrackBest and AppendReward.
Tracked == IF pc = "append" THEN Append(RunRewards, reward) ELSE RunRewards

MaxOf(seq) == CHOOSE m \in {seq[i] : i \in DOMAIN seq} : \A i \in DOMAIN seq : seq[i] <= m

FirstIndexOf(seq, v) == CHOOSE i \in DOMAIN seq : seq[i] = v /\ \A j \in 1..(i - 1) : seq[j] # v

\* C1: every materialized placement has exactly num_stations station records,
\* and so has the placement optimize_placement returns.
C1_PlacementHasNStations ==
    /\ HasPlacement => Len(placement) = num_stations
    /\ hist.returned => Len(result[1]) = num_stations

\* C2: a run on a non-empty pool executes exactly num_episodes episodes; in
\* each episode select_arm, materialization, calculate_reward, update and the
\* append to the log happen once each and in this order, the update gets the
\* arm selected and the reward computed in that episode, and at the end the
\* log has grown by exactly num_episodes entries (a fresh optimizer: it has
\* length num_episodes).  The run never raises unless the pool is empty or
\* num_episodes is 0 (then no episode runs and the closing log line raises).
C2_ExactlyKEpisodes ==
    LET done(k) == /\ hist.n_select = k /\ hist.n_create = k /\ hist.n_reward = k
                   /\ hist.n_update = k /\ hist.n_track = k /\ hist.n_append = k
                   /\ Len(hist.placements) = k
                   /\ Len(episode_rewards) = hist.start_log + k
    IN
    /\ pc \in {"select", "create", "reward", "update", "track", "append", "decay"}
          => /\ hist.running
             /\ 1 <= episode /\ episode <= num_episodes
    /\ pc = "select" => done(episode - 1)
    /\ pc = "create" => /\ hist.n_select = episode /\ hist.n_create = episode - 1
                        /\ hist.n_append = episode - 1
    /\ pc = "reward" => /\ hist.n_create = episode /\ hist.n_reward = episode - 1
    /\ pc = "update" => /\ hist.n_reward = episode /\ hist.n_update = episode - 1
                        /\ reward = calculate_reward(placement)
    /\ pc = "track" => /\ hist.n_update = episode /\ hist.n_track = episode - 1
    /\ pc = "append" => /\ hist.n_track = episode /\ hist.n_append = episode - 1
    /\ pc = "decay" => /\ done(episode)
                       /\ episode_rewards[Len(episode_rewards)] = reward
    /\ pc \in {"track", "append", "decay"}
          => /\ hist.last_update = <<selected_arm.id, reward>>
             /\ LET h == Get(ActiveBandit.rewards, selected_arm.id, <<>>)
                IN  h # <<>> /\ h[Len(h)] = reward
    /\ (pc = "finish" \/ hist.returned) => done(num_episodes)
    /\ (hist.returned /\ runs = 1) => Len(episode_rewards) = num_episodes
    /\ pc = "raised" => \/ num_episodes = 0 /\ done(0)
                        \/ num_stations = 0 /\ hist.n_create = 0

C2_Witness ==
    /\ hist.returned /\ runs = 1
    /\ num_episodes = 3 /\ Len(episode_rewards) = 3

\* C3: after every episode the tracked best reward is the maximum of the
\* rewards observed so far in the run, and the tracked best placement is the
\* placement of the earliest episode that attained it.
C3_BestIsFirstMax ==
    (hist.running /\ Tracked # <<>>) =>
        /\ best_reward = MaxOf(Tracked)
        /\ hist.best_episode = FirstIndexOf(Tracked, best_reward)
        /\ best_placement = <<hist.placements[hist.best_episode]>>

\* A later episode repeated the maximum and did not replace the best.
C3_Witness ==
    /\ pc = "finish"
    /\ \E i, j \in DOMAIN Tracked :
          /\ i < j
          /\ Tracked[i] = best_reward /\ Tracked[j] = best_reward
          /\ hist.best_episode = i
    /\ \E i \in DOMAIN Tracked : Tracked[i] < best_reward

\* C9: decay_epsilon runs once per completed episode whenever the active
\* bandit is the epsilon-greedy one, whatever algorithm argument selected it,
\* and never when the active bandit is UCB.
C9_DecayOncePerEpisode ==
    (hist.running /\ pc \in {"select", "finish"}) =>
        /\ bandit = "eps" => hist.n_decay = hist.n_append
        /\ bandit = "ucb" => hist.n_decay = 0

\* ------------------------------------------------ claims on the bandit calls
UCBSelected == call.op = "select" /\ call.policy = "ucb"

EpsSelected == call.op = "select" /\ call.policy = "eps"

\* Position of the returned arm in the list given to select_arm.
CallIndex == CHOOSE k \in DOMAIN call.arms : call.arms[k] = call.arm

\* C4: UCB select_arm returns an arm with zero pulls whenever the list holds
\* one; from a fresh bandit, alternating select_arm on one list of 3 arms and
\* update of the selected arm, the first 3 selections are the 3 arms, each
\* once, and none of them comes from the UCB-value computation.
C4_UntriedFirst ==
    /\ (/\ UCBSelected
        /\ \E i \in DOMAIN call.arms : Get(ucb_bandit.counts, call.arms[i].id, 0) = 0)
          => /\ call.branch = "untried"
             /\ \E i \in DOMAIN call.arms : call.arms[i] = call.arm
             /\ Get(ucb_bandit.counts, call.arm.id, 0) = 0
    /\ (trail.ok /\ bandit = "ucb" /\ Len(trail.arms) = 3)
          => LET n == Min2(3, Len(trail.picks))
             IN  /\ \A i \in 1..n : trail.branches[i] = "untried"
                 /\ \A i, j \in 1..n : i # j => trail.picks[i] # trail.picks[j]
                 /\ \A i \in 1..n : \E k \in 1..3 : trail.arms[k] = trail.picks[i]

\* The 4th selection of that scenario is the first made by UCB value.
C4_Witness ==
    /\ trail.ok /\ bandit = "ucb" /\ Len(trail.arms) = 3
    /\ Len(trail.picks) = 4
    /\ trail.branches = <<"untried", "untried", "untried", "ucb">>

\* C5: when every arm of the list has a pull, UCB select_arm returns an arm of
\* maximal UCB value, the first such arm of the list, and nothing else.
C5_UCBMaxFirst ==
    (/\ UCBSelected
     /\ call.arms # <<>>
     /\ \A i \in DOMAIN call.arms : Get(ucb_bandit.counts, call.arms[i].id, 0) >= 1)
        => /\ call.branch = "ucb"
           /\ \E k \in DOMAIN call.arms : call.arms[k] = call.arm
           /\ \A j \in DOMAIN call.arms :
                 ~UCBGreater(ucb_bandit, call.arms[j].id, call.arm.id)
           /\ \A j \in 1..(CallIndex - 1) :
                 UCBGreater(ucb_bandit, call.arm.id, call.arms[j].id)
           /\ Cardinality(UCB_select_arm(ucb_bandit, call.arms)) = 1

\* A tie for the maximum, resolved for the earlier arm, with a lesser arm present.
C5_Witness ==
    /\ UCBSelected /\ call.branch = "ucb"
    /\ \E j \in DOMAIN call.arms :
          /\ j > CallIndex
          /\ ~UCBGreater(ucb_bandit, call.arm.id, call.arms[j].id)
    /\ \E j \in DOMAIN call.arms :
          UCBGreater(ucb_bandit, call.arm.id, call.arms[j].id)

AllIds(b1, b2) ==
    (DOMAIN b1.counts) \cup (DOMAIN b1.rewards)
        \cup (DOMAIN b2.counts) \cup (DOMAIN b2.rewards)

\* C6: UCB update(arm, reward) appends reward to the arm's history, adds 1 to
\* the arm's pull count and to total_pulls, and changes no other arm.
C6_UpdateEffect ==
    [][(call'.op = "update" /\ call'.policy = "ucb") =>
          LET id == call'.arm.id
          IN  /\ Get(ucb_bandit'.rewards, id, <<>>)
                    = Append(Get(ucb_bandit.rewards, id, <<>>), call'.reward)
              /\ Get(ucb_bandit'.counts, id, 0) = Get(ucb_bandit.counts, id, 0) + 1
              /\ ucb_bandit'.total_pulls = ucb_bandit.total_pulls + 1
              /\ \A k \in AllIds(ucb_bandit, ucb_bandit') \ {id} :
                    /\ Get(ucb_bandit'.counts, k, 0) = Get(ucb_bandit.counts, k, 0)
                    /\ Get(ucb_bandit'.rewards, k, <<>>)
                          = Get(ucb_bandit.rewards, k, <<>>)]_vars

\* An update of an arm pulled before, with another arm holding a history.
C6_Witness ==
    /\ call.op = "update" /\ call.policy = "ucb"
    /\ Len(Get(ucb_bandit.rewards, call.arm.id, <<>>)) >= 2
    /\ \E k \in DOMAIN ucb_bandit.rewards :
          k # call.arm.id /\ ucb_bandit.rewards[k] # <<>>

HasHistory(id) == Get(epsilon_bandit.rewards, id, <<>>) # <<>>

\* C7: with epsilon = 0 and an arm of the list having a history, epsilon-greedy
\* select_arm returns an arm with a history whose mean reward no arm of the
\* list with a history exceeds, by the exploit branch.
C7_GreedyAtEpsilonZero ==
    (/\ EpsSelected
     /\ REq(epsilon_bandit.epsilon, <<0, 1>>)
     /\ \E i \in DOMAIN call.arms : HasHistory(call.arms[i].id))
        => /\ call.branch = "exploit"
           /\ \E k \in DOMAIN call.arms : call.arms[k] = call.arm
           /\ HasHistory(call.arm.id)
           /\ \A j \in DOMAIN call.arms :
                 HasHistory(call.arms[j].id)
                    => ~MeanGreater(epsilon_bandit, call.arms[j].id, call.arm.id)

\* The list holds an untried arm and a tried arm of lesser mean before the
\* returned one.
C7_Witness ==
    /\ EpsSelected
    /\ REq(epsilon_bandit.epsilon, <<0, 1>>)
    /\ call.branch = "exploit"
    /\ \E j \in DOMAIN call.arms : ~HasHistory(call.arms[j].id)
    /\ \E j \in 1..(CallIndex - 1) :
          /\ HasHistory(call.arms[j].id)
          /\ MeanGreater(epsilon_bandit, call.arm.id, call.arms[j].id)

\* C10: select_arm of either policy on an empty list fails with an error; it
\* does not return a no-arm value.
C10_EmptyListFails ==
    (call.op = "select" /\ call.arms = <<>>) => call.branch = "raise"

\* ------------------------------------------------ claims on decay_epsilon
ClosedForm ==
    RMaxFloor(RMul(epsilon_bandit.initial_epsilon,
                   RPow(epsilon_bandit.epsilon_decay, hist.n_decay)))

\* C8 (as stated): after n decay calls epsilon is
\* max(0.1, initial_epsilon * decay**n), for every n >= 0, initial epsilon and
\* decay factor; no decay call leaves epsilon below 0.1.
C8_ClosedFormAlways ==
    pc = "decaying" =>
        /\ REq(epsilon_bandit.epsilon, ClosedForm)
        /\ hist.n_decay >= 1 => ~RLess(epsilon_bandit.epsilon, EpsFloor)

\* C8 (amended): the closed form holds for every n >= 0 when the initial
\* epsilon is at least 0.1 and the decay factor is not negative; for all
\* arguments, epsilon is at least 0.1 after every decay call.
C8_ClosedFormFromFloor ==
    pc = "decaying" =>
        /\ (/\ ~RLess(epsilon_bandit.initial_epsilon, EpsFloor)
            /\ ~RLess(epsilon_bandit.epsilon_decay, <<0, 1>>))
              => REq(epsilon_bandit.epsilon, ClosedForm)
        /\ hist.n_decay >= 1 => ~RLess(epsilon_bandit.epsilon, EpsFloor)

\* The floor has cut a product that fell below it.
C8_Witness ==
    /\ pc = "decaying"
    /\ hist.n_decay >= 2
    /\ RLess(EpsFloor, epsilon_bandit.initial_epsilon)
    /\ RLess(<<0, 1>>, epsilon_bandit.epsilon_decay)
    /\ REq(epsilon_bandit.epsilon, EpsFloor)
    /\ RLess(RMul(epsilon_bandit.initial_epsilon,
                  RPow(epsilon_bandit.epsilon_decay, hist.n_decay)), EpsFloor)

\* ------------------------------------------------ claims on the constructor
\* C11: constructing the optimizer with num_stations <= 0 is rejected, so no
\* run of optimize_placement starts on an optimizer with num_stations <= 0.
C11_NoRunWithoutStations == hist.running => num_stations >= 1

\* ------------------------------------- claims on the reward and the metrics
RewardCalled == call.op = "calculate_reward"

\* C12: calculate_reward on an empty placement returns -1000.0 as an ordinary
\* value: it does not raise and computes none of the distance, coverage and
\* spread terms.
C12_EmptyPlacementSentinel ==
    (RewardCalled /\ call.placement = <<>>)
        => /\ call.value = -1000000
           /\ ~call.raised
           /\ call.steps = <<>>

\* calculate_reward has been called on the empty placement.
C12_Witness == RewardCalled /\ call.placement = <<>> /\ call.value < 0

\* ------------------------------------------------ claims on the candidate pool
\* C13: the pool generate_candidate_placements returns to a run holds, in
\* this order, min(len(demand_centers), num_stations) arms with ids
\* strategic_0.., num_stations arms with ids grid_0.., num_stations arms with
\* ids random_0..; no two arms share an id.  (The ids are compared when the
\* pool is returned, before the first selection; the run never assigns the
\* pool again.)
C13_PoolLayout ==
    LET n == num_stations
        m == Min2(Len(demand_centers), n)
    IN  /\ hist.running => Len(candidates) = m + 2 * n
        /\ (hist.running /\ hist.n_select = 0) =>
              /\ \A k \in 1..m :
                    /\ ArmIdStr(candidates[k].id) = "strategic_" \o NatStr(k - 1)
                    /\ candidates[k].type = "strategic"
              /\ \A k \in 1..n :
                    /\ ArmIdStr(candidates[m + k].id) = "grid_" \o NatStr(k - 1)
                    /\ candidates[m + k].type = "grid"
                    /\ ArmIdStr(candidates[m + n + k].id) = "random_" \o NatStr(k - 1)
                    /\ candidates[m + n + k].type = "random"
              /\ \A i, j \in DOMAIN candidates :
                    i # j => ArmIdStr(candidates[i].id) # ArmIdStr(candidates[j].id)

\* A pool with fewer strategic arms than stations: num_stations exceeds the
\* number of demand centers.
C13_Witness ==
    /\ hist.running
    /\ num_stations > Len(demand_centers)
    /\ Len(candidates) = Len(demand_centers) + 2 * num_stations
    /\ candidates[Len(demand_centers) + 1].type = "grid"

\* ------------------------------------------------ claims on materialization
\* The kind of arm a materialized placement of the run came from.
KindOf(i) == hist.placements[i][1].type

\* C14: materializing a strategic or a grid arm is deterministic: the
\* placement just built has the kind of the selected arm, and any two
\* materializations of one run from strategic arms, or from grid arms, are the
\* same placement (so two calls with the same such arm are); only random
\* arms may differ.
C14_StrategicGridDeterministic ==
    /\ (HasPlacement /\ placement # <<>>) => placement[1].type = selected_arm.type
    /\ hist.running =>
          \A i, j \in DOMAIN hist.placements :
              (/\ hist.placements[i] # <<>>
               /\ hist.placements[j] # <<>>
               /\ KindOf(i) = KindOf(j)
               /\ KindOf(i) \in {"strategic", "grid"})
                  => hist.placements[i] = hist.placements[j]

\* One run materialized a grid arm twice and a random arm twice, the two
\* random placements being different.
C14_Witness ==
    /\ hist.running
    /\ \E i, j \in DOMAIN hist.placements :
          /\ i < j
          /\ KindOf(i) = "grid" /\ KindOf(j) = "grid"
          /\ hist.placements[i] = hist.placements[j]
    /\ \E i, j \in DOMAIN hist.placements :
          /\ i < j
          /\ KindOf(i) = "random" /\ KindOf(j) = "random"
          /\ hist.placements[i] # hist.placements[j]

\* avg_distance of calculate_reward, in thousandths of a km: the sum of
\* weight * nearest-station distance over len(demand_centers) (line 294).
RewardAvgDistance(stations) == WeightedTotal(stations) \div Len(demand_centers)

\* C15: the metrics save_results writes for a placement equal the coverage,
\* avg_distance and spread terms calculate_reward computes for it; the
\* exported avg_distance is the weighted quantity of the reward.
C15_MetricsMatchReward ==
    (call.op = "save_results" /\ call.placement # <<>>)
        => /\ call.metrics.coverage = calculate_coverage(call.placement)
           /\ call.metrics.spread = calculate_spread(call.placement)
           /\ call.metrics.avg_distance = RewardAvgDistance(call.placement)

\* Distance from demand center c to its nearest station, in decametres.
Nearest(c, stations) ==
    CHOOSE d \in {haversine_distance(demand_centers[c].lat, demand_centers[c].lon,
                                     stations[s].lat, stations[s].lon) :
                     s \in DOMAIN stations} :
        \A s \in DOMAIN stations :
            d <= haversine_distance(demand_centers[c].lat, demand_centers[c].lon,
                                    stations[s].lat, stations[s].lon)

\* Demand centers with a station within 2.0 km (200 dam).
CoveredCenters(stations) ==
    {c \in DOMAIN demand_centers : stations # <<>> /\ Nearest(c, stations) <= 200}

\* C16: _calculate_coverage returns the number of demand centers with a
\* station within 2.0 km over the number of demand centers, each center
\* counted once; it lies in [0, 1] and is 1.0 when every center is covered.
C16_CoverageFraction ==
    call.op = "_calculate_coverage" =>
        /\ call.value * Len(demand_centers)
              = Cardinality(CoveredCenters(call.placement)) * 1000
        /\ call.value >= 0 /\ call.value <= 1000
        /\ CoveredCenters(call.placement) = DOMAIN demand_centers
              => call.value = 1000

\* Full coverage by a placement with two stations in range of one center.
C16_Witness ==
    /\ call.op = "_calculate_coverage"
    /\ call.value = 1000
    /\ \E c \in DOMAIN demand_centers : \E s, t \in DOMAIN call.placement :
          /\ s # t
          /\ haversine_distance(demand_centers[c].lat, demand_centers[c].lon,
                                call.placement[s].lat, call.placement[s].lon) <= 200
          /\ haversine_distance(demand_centers[c].lat, demand_centers[c].lon,
                                call.placement[t].lat, call.placement[t].lon) <= 200

\* Sum of the distances over all ordered pairs of stations, in decametres:
\* twice the sum over the unordered pairs.
OrderedPairSum(stations) ==
    SumSeq([i \in DOMAIN stations |->
               SumSeq([j \in DOMAIN stations |->
                          haversine_distance(stations[i].lat, stations[i].lon,
                                             stations[j].lat, stations[j].lon)])])

\* Number of ordered pairs of distinct stations.
OrderedPairs(stations) == Len(stations) * (Len(stations) - 1)

\* C17: _calculate_spread returns 0 for fewer than 2 stations; otherwise, with
\* m the mean pairwise distance, 0 if m < 1.0 km, 1 if m > 5.0 km and m / 5.0
\* if 1.0 <= m <= 5.0 (m = OrderedPairSum / OrderedPairs, in dam; the value
\* in thousandths, rounded down).
C17_SpreadPiecewise ==
    call.op = "_calculate_spread" =>
        LET st == call.placement
            sum == OrderedPairSum(st)
            n == OrderedPairs(st)
        IN  /\ Len(st) < 2 => call.value = 0
            /\ (Len(st) >= 2 /\ sum < 100 * n) => call.value = 0
            /\ (Len(st) >= 2 /\ sum > 500 * n) => call.value = 1000
            /\ (Len(st) >= 2 /\ sum >= 100 * n /\ sum <= 500 * n)
                  => /\ call.value * n <= 2 * sum
                     /\ 2 * sum < (call.value + 1) * n

\* A mean pairwise distance strictly between 1 km and 5 km over 3 or more
\* stations.
C17_Witness ==
    /\ call.op = "_calculate_spread"
    /\ Len(call.placement) >= 3
    /\ call.value > 200 /\ call.value < 1000

\* Sum over the demand centers of weight * distance to the nearest station
\* (tenths * decametres, i.e. thousandths of a km).
WeightedNearest(stations) ==
    SumSeq([c \in DOMAIN demand_centers |->
               demand_centers[c].weight * Nearest(c, stations)])

RewardsSoFar ==
    IF pc \in {"update", "track", "append"} THEN Append(RunRewards, reward)
    ELSE RunRewards

IsPrefix(old, new) ==
    /\ Len(old) <= Len(new)
    /\ SubSeq(new, 1, Len(old)) = old

\* C20: during one run the state of the active bandit only grows: from one
\* step to the next no arm's pull count and no history's length decreases,
\* and the entries of a history stay as they are.
C20_BanditOnlyGrows ==
    [][(hist.running /\ hist'.running) =>
          /\ bandit' = bandit
          /\ \A id \in (DOMAIN ActiveBandit.counts) \cup (DOMAIN ActiveBandit.rewards) :
                /\ Get(ActiveBandit'.counts, id, 0) >= Get(ActiveBandit.counts, id, 0)
                /\ IsPrefix(Get(ActiveBandit.rewards, id, <<>>),
                            Get(ActiveBandit'.rewards, id, <<>>))
          /\ bandit = "ucb" => ucb_bandit'.total_pulls >= ucb_bandit.total_pulls]_vars

\* An arm of the epsilon-greedy bandit pulled for the third time in a run.
C20_Witness ==
    /\ hist.running /\ runs = 1
    /\ pc = "track"
    /\ bandit = "eps"
    /\ Len(Get(epsilon_bandit.rewards, selected_arm.id, <<>>)) = 3
    /\ Get(epsilon_bandit.counts, selected_arm.id, 0) = 3

\* ------------------------------------------------ claims on the frame of a run
\* Two bandit states hold the same statistics: per arm the same pull count
\* and the same history, as reads of the defaultdicts return them.
SameStats(b1, b2) ==
    \A id \in AllIds(b1, b2) :
        /\ Get(b1.counts, id, 0) = Get(b2.counts, id, 0)
        /\ Get(b1.rewards, id, <<>>) = Get(b2.rewards, id, <<>>)

\* A step of optimize_placement, from its call to its return or its error.
RunStep == hist.running \/ hist'.running

\* A step of save_results.
SaveStep == pc = "idle" /\ call'.op = "save_results"

\* C21: the statistics of the bandits are written by the loop's update call
\* only: every other step of a run (select_arm, materialization,
\* calculate_reward among them) and save_results leave the pull counts,
\* histories and total pulls of both bandits as they are, and no step of a run
\* changes those of the policy the run does not use.
C21_OnlyUpdateWrites ==
    [][/\ ((RunStep /\ pc # "update") \/ SaveStep)
             => /\ SameStats(ucb_bandit, ucb_bandit')
                /\ ucb_bandit'.total_pulls = ucb_bandit.total_pulls
                /\ SameStats(epsilon_bandit, epsilon_bandit')
       /\ (RunStep /\ hist'.algorithm = "ucb")
             => SameStats(epsilon_bandit, epsilon_bandit')
       /\ (RunStep /\ hist'.algorithm # "ucb")
             => /\ SameStats(ucb_bandit, ucb_bandit')
                /\ ucb_bandit'.total_pulls = ucb_bandit.total_pulls]_vars

\* An epsilon-greedy run has selected, materialized, scored and updated while
\* the UCB bandit held the pulls of an earlier run.
C21_Witness ==
    /\ hist.running /\ runs = 2
    /\ bandit = "eps"
    /\ pc = "track"
    /\ ucb_bandit.total_pulls >= 1
    /\ \E id \in DOMAIN epsilon_bandit.rewards : epsilon_bandit.rewards[id] # <<>>

\* ------------------------------------------------ claims on the station records
Materialized1 == call.op = "_create_placement_from_arm"

\* The number a string of decimal digits denotes (-1 if it is not one).
RECURSIVE DecimalValue(_)
DecimalValue(str) ==
    IF str = "" THEN 0
    ELSE LET last == SubSeq(str, Len(str), Len(str))
             front == DecimalValue(SubSeq(str, 1, Len(str) - 1))
         IN  IF front < 0 \/ ~(\E d \in 0..9 : Digit(d) = last) THEN -1
             ELSE 10 * front + (CHOOSE d \in 0..9 : Digit(d) = last)

\* C22: in a materialized placement the record at position i (from 1) has the
\* station_id 'ST' followed by the decimal digits of i, filled with a leading
\* zero to two digits and never longer than that needs; so the ids of one
\* placement run from 1 and differ pairwise.
C22_StationIdsSequential ==
    Materialized1 =>
        /\ \A i \in DOMAIN placement :
              LET id == placement[i].station_id
                  digits == SubSeq(id, 3, Len(id))
              IN  /\ SubSeq(id, 1, 2) = "ST"
                  /\ Len(digits) >= 2
                  /\ DecimalValue(digits) = i
                  /\ Len(digits) > 2 => SubSeq(digits, 1, 1) # "0"
        /\ \A i, j \in DOMAIN placement :
              i # j => placement[i].station_id # placement[j].station_id

\* A grid placement of 100 stations: padded, two-digit and three-digit ids.
C22_Witness ==
    /\ Materialized1
    /\ call.arm.type = "grid"
    /\ Len(placement) = 100
    /\ placement[9].station_id = "ST09"
    /\ placement[10].station_id = "ST10"
    /\ placement[100].station_id = "ST100"

\* ------------------------------------------ claims on the bandit's bookkeeping
\* The bandit the standalone calls are made on.
TestedBandit == IF bandit = "ucb" THEN ucb_bandit ELSE epsilon_bandit

\* C23: after any sequence of select_arm and update calls on a bandit that
\* started empty, every arm's pull count is the length of its history (both
\* policies), and UCB's total_pulls is the sum of the pull counts, which is the
\* number of update calls made.
C23_CountsMatchHistories ==
    pc = "bandit" =>
        /\ \A id \in (DOMAIN TestedBandit.counts) \cup (DOMAIN TestedBandit.rewards) :
              Get(TestedBandit.counts, id, 0) = Len(Get(TestedBandit.rewards, id, <<>>))
        /\ bandit = "ucb" =>
              /\ ucb_bandit.total_pulls
                    = SumFn(ucb_bandit.counts, DOMAIN ucb_bandit.counts)
              /\ ucb_bandit.total_pulls = hist.n_update

\* Three updates over two arms of the UCB bandit, then a selection.
C23_Witness ==
    /\ pc = "bandit" /\ bandit = "ucb"
    /\ call.op = "select"
    /\ hist.n_update = 3
    /\ Cardinality(DOMAIN ucb_bandit.counts) = 2
    /\ \E id \in DOMAIN ucb_bandit.counts : ucb_bandit.counts[id] = 2

\* C24: whenever UCB select_arm reaches the loop that computes the UCB values
\* (no arm of the list is untried), every arm of the list has a pull count of
\* at least 1 and a non-empty history, and total_pulls is at least 1: the
\* loop divides by no zero and takes no logarithm of zero, so select_arm on a
\* non-empty list never ends in that error.
C24_UCBValuesDefined ==
    UCBSelected =>
        /\ call.branch # "raise"
        /\ call.branch = "ucb" =>
              /\ \A i \in DOMAIN call.arms :
                    /\ Get(ucb_bandit.counts, call.arms[i].id, 0) >= 1
                    /\ Get(ucb_bandit.rewards, call.arms[i].id, <<>>) # <<>>
              /\ ucb_bandit.total_pulls >= 1

\* The UCB values were computed with total_pulls = 1 (math.log gives 0) for a
\* list of one arm.
C24_Witness ==
    /\ UCBSelected
    /\ call.branch = "ucb"
    /\ ucb_bandit.total_pulls = 1
    /\ Len(call.arms) = 1

\* ------------------------------------------------ claims on arms and rewards
\* The rewards the bandit b holds for the arms of one kind.
KindRewards(b, kind) ==
    UNION {{b.rewards[id][i] : i \in DOMAIN b.rewards[id]} :
              id \in {x \in DOMAIN b.rewards : x[1] = kind}}

\* C25: the placement built from a strategic or grid arm depends on the
\* arm's kind only, not on its id, index or stored lat/lon: the placement just
\* built from such an arm is the one every earlier arm of that kind gave in the
\* run, and under either policy all rewards observed for strategic arms are
\* one constant and all rewards observed for grid arms are one constant.
C25_KindDecidesReward ==
    /\ (HasPlacement /\ selected_arm.type \in {"strategic", "grid"}) =>
          \A i \in DOMAIN hist.placements :
              (hist.placements[i] # <<>> /\ KindOf(i) = selected_arm.type)
                  => hist.placements[i] = placement
    /\ \A kind \in {"strategic", "grid"} :
          Cardinality(KindRewards(ucb_bandit, kind)
                        \cup KindRewards(epsilon_bandit, kind)) <= 1

\* Two different arms of one kind, strategic or grid, hold rewards, and an arm
\* of another kind holds a different reward.
C25_Witness ==
    /\ hist.running
    /\ \E b \in {ucb_bandit, epsilon_bandit} :
          \E id1, id2, id3 \in DOMAIN b.rewards :
              /\ id1 # id2
              /\ id1[1] = id2[1] /\ id1[1] \in {"strategic", "grid"}
              /\ id3[1] # id1[1]
              /\ b.rewards[id1] # <<>> /\ b.rewards[id2] # <<>>
              /\ b.rewards[id3] # <<>>
              /\ b.rewards[id3][1] # b.rewards[id1][1]

\* ------------------------------------------------ claims on a short UCB run
\* The pool of the optimizer has min(len(demand_centers), n) + 2 n arms.
PoolSize == Min2(Len(demand_centers), num_stations) + 2 * num_stations

\* The UCB bandit was fresh when the current (or last) run began: all its
\* pulls are updates of this run.
FreshUCBRun ==
    /\ hist.running \/ hist.returned
    /\ hist.algorithm = "ucb"
    /\ ucb_bandit.total_pulls = hist.n_update

\* C26: in a UCB run on a fresh bandit with num_episodes not above the pool
\* size, every episode selects an arm never pulled before: each selection
\* comes from the untried branch (the UCB values are never computed), the
\* selected arms differ pairwise, and every arm has pull count 0 or 1.
C26_ShortUCBRunOnlyExplores ==
    (FreshUCBRun /\ num_episodes <= PoolSize) =>
        /\ call.op = "select" => call.branch = "untried"
        /\ \A id \in DOMAIN ucb_bandit.counts : ucb_bandit.counts[id] <= 1
        /\ Cardinality({id \in DOMAIN ucb_bandit.counts : ucb_bandit.counts[id] = 1})
              = hist.n_update
        /\ pc \in {"create", "reward", "update"}
              => Get(ucb_bandit.counts, selected_arm.id, 0) = 0

\* A run of as many episodes as the pool has arms has returned: every arm was
\* pulled once.
C26_Witness ==
    /\ hist.returned
    /\ hist.algorithm = "ucb"
    /\ num_episodes = PoolSize
    /\ num_episodes >= 3
    /\ ucb_bandit.total_pulls = num_episodes
    /\ \A id \in DOMAIN ucb_bandit.counts : ucb_bandit.counts[id] = 1

\* ------------------------------------------------ claims on select_arm's result
\* C27: on a non-empty list select_arm of either policy returns an element of
\* the list, in every bandit state and from every branch (UCB: untried arm,
\* maximal UCB value; epsilon-greedy: exploration, exploitation, fallback
\* when no arm of the list has a history); it returns neither None nor an arm
\* that is not in the list, and it does not fail.
C27_SelectReturnsListElement ==
    (call.op = "select" /\ pc = "bandit" /\ call.arms # <<>>) =>
        /\ call.arm # None
        /\ \E k \in DOMAIN call.arms : call.arms[k] = call.arm
        /\ call.policy = "ucb" => call.branch \in {"untried", "ucb"}
        /\ call.policy = "eps" => call.branch \in {"explore", "exploit", "fallback"}

\* Epsilon-greedy at epsilon 0: no arm of a list of two has a history,
\* though another arm has one, and the fallback returned the second of the two.
C27_Witness ==
    /\ EpsSelected
    /\ pc = "bandit"
    /\ REq(epsilon_bandit.epsilon, <<0, 1>>)
    /\ call.branch = "fallback"
    /\ Len(call.arms) = 2
    /\ call.arm = call.arms[2]
    /\ \E id \in DOMAIN epsilon_bandit.rewards : epsilon_bandit.rewards[id] # <<>>

\* ------------------------------------------------ claims on repeated runs
\* The step that calls optimize_placement.
StartStep == pc = "idle" /\ hist'.running

\* The step by which optimize_placement returns.
ReturnStep == hist.running /\ hist'.returned

\* C28: a call of optimize_placement takes the optimizer as it is: it starts
\* with the episode log and both bandits (counts, histories, total pulls,
\* epsilon) exactly as the earlier runs left them, no step of the run changes
\* or removes an entry the log had, and on return the log is longer by
\* exactly num_episodes.  A run that follows another without a reset therefore
\* starts with a non-empty log; only a fresh optimizer or the caller's reset
\* gives a run an empty log together with two empty bandits.
C28_RunsAccumulate ==
    [][/\ StartStep =>
             /\ episode_rewards' = episode_rewards
             /\ ucb_bandit' = ucb_bandit
             /\ epsilon_bandit' = epsilon_bandit
             /\ hist'.start_log = Len(episode_rewards)
             /\ runs >= 1 =>
                   /\ Len(episode_rewards) >= runs * num_episodes
                   /\ episode_rewards # <<>>
                   /\ \/ ucb_bandit.total_pulls >= 1
                      \/ \E id \in DOMAIN epsilon_bandit.counts :
                            epsilon_bandit.counts[id] >= 1
             /\ runs = 0 =>
                   /\ episode_rewards = <<>>
                   /\ ucb_bandit = UCB_Bandit(2)
                   /\ epsilon_bandit = EpsilonGreedy_Bandit(<<3, 10>>, <<19, 20>>)
       /\ RunStep => IsPrefix(episode_rewards, episode_rewards')
       /\ ReturnStep =>
             Len(episode_rewards') = hist.start_log + num_episodes]_vars

\* The second UCB run in a row without a reset has returned: the log holds the
\* first run's entry before the second's, and the bandit the pulls of both.
C28_Witness ==
    /\ hist.returned /\ runs = 2
    /\ hist.algorithm = "ucb"
    /\ hist.start_log >= 1
    /\ Len(episode_rewards) = hist.start_log + num_episodes
    /\ ucb_bandit.total_pulls = Len(episode_rewards)
    /\ episode_rewards[1] # episode_rewards[Len(episode_rewards)]

\* ------------------------------------------------ claims on the exported record
Saved == call.op = "save_results" /\ pc = "idle"

\* C29 (as stated): after any sequence of runs, save_results called with the
\* placement the most recent run returned writes a final_reward equal to
\* calculate_reward of that placement.
C29_FinalRewardOfPlacementAlways ==
    Saved => call.final_reward = calculate_reward(call.placement)

\* C29 (amended): when the episode log was empty at the start of the most
\* recent run (a fresh optimizer, or the caller's reset before the run),
\* save_results called with the placement that run returned writes a
\* final_reward equal to calculate_reward of that placement.
C29_FinalRewardOfPlacementFromEmptyLog ==
    (Saved /\ hist.start_log = 0)
        => call.final_reward = calculate_reward(call.placement)

\* Exported after a run from an empty log whose best episode was neither the
\* first nor the last.
C29_Witness ==
    /\ Saved /\ hist.start_log = 0
    /\ Len(call.episode_rewards) >= 3
    /\ hist.best_episode = 2
    /\ call.final_reward = call.episode_rewards[2]
    /\ call.episode_rewards[Len(call.episode_rewards)] < call.final_reward

\* ------------------------------------------------ claims on the run's result
\* C30: with num_stations >= 1 and num_episodes >= 1 every placement the loop
\* materializes is non-empty, so the sentinel -1000.0 of the empty placement
\* is never computed and never enters the episode log; the run does not end in
\* an error, and it returns a placement (not None) that is one of the
\* placements materialized during that run.
C30_NonEmptyPlacements ==
    (num_stations >= 1 /\ num_episodes >= 1) =>
        /\ \A i \in DOMAIN hist.placements : hist.placements[i] # <<>>
        /\ HasPlacement => placement # <<>>
        /\ pc \in {"update", "track", "append", "decay"} => reward # -1000000
        /\ \A i \in DOMAIN episode_rewards : episode_rewards[i] # -1000000
        /\ pc # "raised"
        /\ hist.returned =>
              /\ result # <<>>
              /\ result[1] # <<>>
              /\ \E i \in DOMAIN hist.placements : hist.placements[i] = result[1]

\* A run on one station has returned a placement that was neither the first
\* nor the last it materialized.
C30_Witness ==
    /\ hist.returned
    /\ num_stations = 1
    /\ Len(hist.placements) >= 3
    /\ result[1] = hist.placements[2]
    /\ result[1] # hist.placements[1]
    /\ result[1] # hist.placements[Len(hist.placements)]

====
